---------------------------- MODULE Spec2Model ----------------------------
(***************************************************************************)
(* SeaPay hotel booking assistant: the make_payment, show_hotel_cards and  *)
(* show_approval_request tools, the approval widget builder, the agent     *)
(* runtime's tool calls in a conversation, and the SeaPayServer adapter.   *)
(***************************************************************************)
EXTENDS Integers, Sequences, FiniteSets, TLC

VARIABLES
    payPc,        \* make_payment: "idle", or "posting" while client.post is awaited
    payCall,      \* the invocation in progress: its arguments, key and wallet
    payPosts,     \* client.post calls issued by the current (or last) invocation
    postLog,      \* JSON bodies of every POST to /api/reserve, all invocations
    payStarted,   \* invocations of make_payment so far
    payEntered,   \* invocations that entered the x402HttpxClient context
    payLast,      \* what the last completed invocation read and received
    payResult,    \* the dict the last completed invocation returned
    payEscaped    \* TRUE when an exception left the last invocation

payVars ==
    <<payPc, payCall, payPosts, postLog, payStarted, payEntered, payLast,
      payResult, payEscaped>>

VARIABLES
    convLog,      \* the conversation: user messages and the agent's tool calls
    convTurn      \* "user" between runs, "agent" while a run of seapay_agent goes on

convVars == <<convLog, convTurn>>

VARIABLES
    store,          \* the conversation store: thread id -> its items, oldest first
    turnPc,         \* each chat turn's place in SeaPayServer.respond
    turnReq,        \* the thread, user message and request context respond was called with
    turnItems,      \* the history respond loaded (after `reversed`)
    runOf,          \* the agent run respond started: agent, input, context
    produced,       \* events stream_agent_response has produced for the run
    pending,        \* the event respond has received and not yet yielded
    yielded,        \* events respond has yielded to the transport layer
    runsStarted,    \* Runner.run_streamed calls so far
    actionsHandled, \* widget actions delivered to SeaPayServer.action so far
    actionEvents    \* events SeaPayServer.action has yielded

srvVars ==
    <<store, turnPc, turnReq, turnItems, runOf, produced, pending, yielded,
      runsStarted, actionsHandled, actionEvents>>

VARIABLES
    widPc,          \* the widget tools: "idle", or "streaming" while stream_widget is awaited
    widCall,        \* the tool invocation in progress (or the last one) and its arguments
    widCalls,       \* invocations of show_hotel_cards and show_approval_request so far
    hotelBuild,     \* what the last show_hotel_cards passed to build_hotel_card_widget
    approvalBuilds, \* every build_approval_widget call: its arguments and its payload
    streamCalls,    \* the stream_widget calls of the current (or last) invocation
    widResult,      \* the dict the last completed invocation returned
    widRaised       \* what raised in the current (or last) invocation: "no", "build" or "stream"

widVars ==
    <<widPc, widCall, widCalls, hotelBuild, approvalBuilds, streamCalls, widResult,
      widRaised>>

VARIABLES
    epPc,           \* the POST /chatkit handler: "idle", or "processing" while server.process is awaited
    epBody,         \* the body of the request being handled
    epLog           \* every handled request: what process did and what the handler returned

epVars == <<epPc, epBody, epLog>>

vars == <<payVars, convVars, srvVars, widVars, epVars>>

\* What a step of one component leaves alone: the other components.
payFrame == <<convVars, srvVars, widVars, epVars>>

convFrame == <<payVars, srvVars, widVars, epVars>>

srvFrame == <<payVars, convVars, widVars, epVars>>

widFrame == <<payVars, convVars, srvVars, epVars>>

epFrame == <<payVars, convVars, srvVars, widVars>>

None == "None"

----------------------------------------------------------------------------
(* Bounds of the model *)

MaxInvocations == 2

MaxConvLen == 4

MaxEvents == 2

MaxActions == 1

MaxHotels == 4

MaxToolCalls == 2

MaxRequests == 2

----------------------------------------------------------------------------
(* make_payment: src/backend/app/agents/seapay_agent.py                     *)

HTTP_OK == 200

StatusCodes == {200, 402, 500}

\* Python exception classes that reach make_payment's handlers; every one
\* is a subclass of Exception, ValueError only of itself.
ExcClasses == {"ValueError", "AttributeError", "Exception"}

IsInstance(cls, base) ==
    \/ base = "Exception" /\ cls \in ExcClasses
    \/ base = cls

\* Values of the PRIVATE_KEY environment variable, as character sequences.
\* os.getenv returns None when the variable is unset (isSet = FALSE).
UnsetKey == [isSet |-> FALSE, chars |-> <<>>]

PrivateKeyEnv ==
    { UnsetKey }
    \cup { [isSet |-> TRUE, chars |-> c] :
             c \in { <<>>, <<"a", "b">>, <<"0", "x", "a", "b">>, <<"z">>, <<"0", "x">> } }

\* The keys eth_account accepts (after the 0x prefix is ensured).
ValidKeys == { <<"0", "x", "a", "b">> }

StartsWith0x(k) ==
    Len(k) >= 2 /\ k[1] = "0" /\ k[2] = "x"

\* if not private_key.startswith("0x"): private_key = "0x" + private_key
EnsurePrefix(k) ==
    IF StartsWith0x(k) THEN k ELSE <<"0", "x">> \o k

Return(v) == [kind |-> "return", val |-> v]

Raise(cls, msg) == [kind |-> "raise", exc |-> [cls |-> cls, msg |-> msg]]

\* Account.from_key: a wallet for a valid key; raises otherwise, with the
\* class the library picks (fromKeyCls).
AccountFromKey(k, fromKeyCls) ==
    IF k \in ValidKeys
    THEN Return([address |-> <<"addr">> \o k])
    ELSE Raise(fromKeyCls, "invalid private key")

\* LoadWallet without the `if not private_key` test of line 147.
LoadWalletNoEmptyTest(key, fromKeyCls) ==
    AccountFromKey(EnsurePrefix(key.chars), fromKeyCls)

\* Lines 146-152: read PRIVATE_KEY, ensure the prefix, derive the wallet.
LoadWallet(key, fromKeyCls) ==
    IF ~key.isSet \/ key.chars = <<>>
    THEN Raise("ValueError", "PRIVATE_KEY environment variable is not set")
    ELSE AccountFromKey(EnsurePrefix(key.chars), fromKeyCls)

\* Lines 162-164: the client is built from SEAPAY_API_BASE_URL; a malformed
\* URL makes the constructor raise.
OpenClient(wallet, baseUrlOk) ==
    IF baseUrlOk
    THEN Return([account |-> wallet])
    ELSE Raise("Exception", "InvalidURL")

\* Arguments the agent passes to the tool.
PayArgs ==
    [hotelName : {"Grand", "Plaza"}, checkIn : {"2025-01-01"},
     checkOut : {"2025-01-03"}, guests : {2}]

\* Lines 167-172: the JSON body of the POST.
RequestJson(args) ==
    [hotelName |-> args.hotelName, checkIn |-> args.checkIn,
     checkOut |-> args.checkOut, guests |-> args.guests]

\* JSON objects the reservation endpoint answers with, as dicts.
EmptyDict == [k \in {} |-> None]

JsonObjects ==
    { EmptyDict,
      [error |-> "Sold out"],
      [reservationId |-> "R1", totalPrice |-> "120"],
      [reservationId |-> "R2", hotelName |-> "Other", status |-> "pending"] }

\* Response bodies: not JSON at all, JSON that is no object, JSON objects.
NotJson == [json |-> FALSE, value |-> [type |-> "none", fields |-> EmptyDict]]

Bodies ==
    { NotJson }
    \cup { [json |-> TRUE, value |-> [type |-> "array", fields |-> EmptyDict]] }
    \cup { [json |-> TRUE, value |-> [type |-> "object", fields |-> f]] :
             f \in JsonObjects }

Responses == [status_code : StatusCodes, body : Bodies]

\* response.json(): the parsed value, or an exception when the body is not JSON.
ResponseJson(body) ==
    IF body.json
    THEN Return(body.value)
    ELSE Raise("ValueError", "JSONDecodeError")

\* Lines 176-179: try: response.json() except Exception: {"error": ...}
ParseResponseData(body) ==
    LET parsed == ResponseJson(body)
    IN  IF parsed.kind = "return"
        THEN parsed.val
        ELSE [type |-> "object", fields |-> [error |-> "Invalid response format"]]

\* dict.get(key, default)
Get(d, key, default) ==
    IF key \in DOMAIN d THEN d[key] ELSE default

\* Lines 186-196
SuccessResult(d, args) ==
    [success |-> TRUE,
     reservationId |-> Get(d, "reservationId", None),
     hotelName |-> Get(d, "hotelName", args.hotelName),
     checkIn |-> Get(d, "checkIn", args.checkIn),
     checkOut |-> Get(d, "checkOut", args.checkOut),
     guests |-> Get(d, "guests", args.guests),
     totalPrice |-> Get(d, "totalPrice", None),
     status |-> Get(d, "status", "confirmed"),
     message |-> <<"Reservation confirmed successfully. Payment was automatically processed via x402.">>]

\* Lines 203-208
FailureResult(status_code, d) ==
    [success |-> FALSE,
     status |-> status_code,
     error |-> Get(d, "error", "Unknown error"),
     message |-> <<"Reservation failed: ", Get(d, "error", "Unknown error")>>]

\* ResultOfResponse taking every status below 500 for a success.
ResultOfResponseBelow500(resp, args) ==
    LET response_data == ParseResponseData(resp.body)
    IN  IF response_data.type # "object"
        THEN Raise("AttributeError", "object has no attribute 'get'")
        ELSE IF resp.status_code < 500
             THEN Return(SuccessResult(response_data.fields, args))
             ELSE Return(FailureResult(resp.status_code, response_data.fields))

\* Lines 175-208: from the response to the returned dict; `.get` on a value
\* that is no dict raises AttributeError.
ResultOfResponse(resp, args) ==
    LET response_data == ParseResponseData(resp.body)
    IN  IF response_data.type # "object"
        THEN Raise("AttributeError", "object has no attribute 'get'")
        ELSE IF resp.status_code = HTTP_OK
             THEN Return(SuccessResult(response_data.fields, args))
             ELSE Return(FailureResult(resp.status_code, response_data.fields))

WalletMessage ==
    <<"Payment processing is not configured. Please set PRIVATE_KEY environment variable in .env file.">>

\* HandleException without the `except Exception` clause of line 218.
HandleExceptionValueErrorOnly(e) ==
    IF IsInstance(e.cls, "ValueError")
    THEN Return([success |-> FALSE, error |-> e.msg, message |-> WalletMessage])
    ELSE [kind |-> "raise", exc |-> e]

\* Lines 210-224: except ValueError / except Exception.
HandleException(e) ==
    IF IsInstance(e.cls, "ValueError")
    THEN Return([success |-> FALSE, error |-> e.msg, message |-> WalletMessage])
    ELSE IF IsInstance(e.cls, "Exception")
         THEN Return([success |-> FALSE, error |-> e.msg,
                      message |-> <<"Failed to complete payment: ", e.msg>>])
         ELSE [kind |-> "raise", exc |-> e]

\* IssuePost sending the request a second time.
IssuePostTwice(log, args) ==
    Append(Append(log, RequestJson(args)), RequestJson(args))

\* Lines 165-173: the one `await client.post("/api/reserve", json=...)`.
IssuePost(log, args) ==
    Append(log, RequestJson(args))

NoResponse == [status_code |-> 0, body |-> NotJson]

NoException == [cls |-> "none", msg |-> "none"]

NoResult == [success |-> FALSE, message |-> <<>>]

PayInit ==
    /\ payPc = "idle"
    /\ payCall = [args |-> CHOOSE a \in PayArgs : TRUE, key |-> UnsetKey]
    /\ payPosts = 0
    /\ postLog = <<>>
    /\ payStarted = 0
    /\ payEntered = 0
    /\ payLast = [args |-> CHOOSE a \in PayArgs : TRUE, key |-> UnsetKey,
                  walletOk |-> FALSE, clientOk |-> FALSE, kind |-> "none",
                  resp |-> NoResponse, exc |-> NoException]
    /\ payResult = NoResult
    /\ payEscaped = FALSE

\* The invocation ends: `fin` is what the try statement leaves, a returned
\* dict or an exception no handler took.
FinishPayment(fin, last) ==
    /\ payPc' = "idle"
    /\ payLast' = last
    /\ payEscaped' = (fin.kind = "raise")
    /\ payResult' = IF fin.kind = "return" THEN fin.val ELSE NoResult

\* Lines 136-173: an invocation up to the await of client.post.  It ends at
\* once when the key, the wallet or the client raises.
MakePaymentCall(args, key, fromKeyCls, baseUrlOk) ==
    /\ payPc = "idle"
    /\ payStarted < MaxInvocations
    /\ UNCHANGED payFrame
    /\ payStarted' = payStarted + 1
    /\ payCall' = [args |-> args, key |-> key]
    /\ LET wallet == LoadWallet(key, fromKeyCls)
           client == IF wallet.kind = "return"
                     THEN OpenClient(wallet.val, baseUrlOk)
                     ELSE wallet
       IN  IF client.kind = "return"
           THEN /\ payPc' = "posting"
                /\ postLog' = IssuePost(postLog, args)
                /\ payPosts' = Len(postLog') - Len(postLog)
                /\ payEntered' = payEntered + 1
                /\ UNCHANGED <<payLast, payResult, payEscaped>>
           ELSE /\ FinishPayment(HandleException(client.exc),
                                 [args |-> args, key |-> key,
                                  walletOk |-> (wallet.kind = "return"),
                                  clientOk |-> FALSE, kind |-> "raise",
                                  resp |-> NoResponse, exc |-> client.exc])
                /\ payPosts' = 0
                /\ UNCHANGED <<postLog, payEntered>>

\* Lines 175-208, then 210-224: client.post returned the final response.
PostResponds(resp) ==
    /\ payPc = "posting"
    /\ LET out == ResultOfResponse(resp, payCall.args)
       IN  FinishPayment(IF out.kind = "return" THEN out ELSE HandleException(out.exc),
                         [args |-> payCall.args, key |-> payCall.key,
                          walletOk |-> TRUE, clientOk |-> TRUE, kind |-> "response",
                          resp |-> resp, exc |-> NoException])
    /\ UNCHANGED <<payCall, payPosts, postLog, payStarted, payEntered>>
    /\ UNCHANGED payFrame

\* Lines 210-224: client.post raised.
PostRaises(cls) ==
    /\ payPc = "posting"
    /\ LET e == [cls |-> cls, msg |-> "request failed"]
       IN  FinishPayment(HandleException(e),
                         [args |-> payCall.args, key |-> payCall.key,
                          walletOk |-> TRUE, clientOk |-> TRUE, kind |-> "raise",
                          resp |-> NoResponse, exc |-> e])
    /\ UNCHANGED <<payCall, payPosts, postLog, payStarted, payEntered>>
    /\ UNCHANGED payFrame

PayNext ==
    \/ \E args \in PayArgs, key \in PrivateKeyEnv,
          fromKeyCls \in {"ValueError", "Exception"}, baseUrlOk \in BOOLEAN :
          MakePaymentCall(args, key, fromKeyCls, baseUrlOk)
    \/ \E resp \in Responses : PostResponds(resp)
    \/ \E cls \in {"ValueError", "Exception"} : PostRaises(cls)

PayQuiet == PayInit


PayReturned == payStarted > 0 /\ payPc = "idle"

KeyMissing(key) == ~key.isSet \/ key.chars = <<>>

IsMessage(m) == m # <<>> /\ \A i \in DOMAIN m : m[i] \in STRING

LastWasResponse == PayReturned /\ payLast.kind = "response"

LastBody == payLast.resp.body

LastBodyIsObject == LastBody.json /\ LastBody.value.type = "object"

\* C1: every invocation of make_payment that has ended, whatever the key,
\* the wallet library, the client and the POST did, returned a dict with a
\* boolean `success` and a `message` string, and no exception left the tool.
C1_AlwaysReturnsResult ==
    PayReturned =>
        /\ ~payEscaped
        /\ "success" \in DOMAIN payResult
        /\ payResult.success \in BOOLEAN
        /\ "message" \in DOMAIN payResult
        /\ IsMessage(payResult.message)

\* An invocation ended after client.post raised an exception that is no
\* ValueError.
C1_Witness ==
    /\ PayReturned
    /\ payLast.kind = "raise"
    /\ payLast.clientOk
    /\ payLast.exc.cls = "Exception"
    /\ payResult.success = FALSE

\* C2: a response whose body is not parseable JSON makes make_payment return
\* success=false with a message, whatever its status code.
C2_UnparseableBodyFails ==
    LastWasResponse /\ ~LastBody.json =>
        payResult.success = FALSE /\ IsMessage(payResult.message)

\* C3: with PRIVATE_KEY unset or empty the invocation returns success=false
\* with the 'not configured' message, derives no wallet and issues no POST;
\* no POST is ever in flight for such a key.
C3_MissingKeySendsNothing ==
    /\ PayReturned /\ KeyMissing(payLast.key) =>
           /\ payResult.success = FALSE
           /\ payResult.message = WalletMessage
           /\ ~payLast.walletOk
           /\ payLast.kind = "raise"
           /\ payPosts = 0
    /\ payPc = "posting" => ~KeyMissing(payCall.key)

\* Two invocations, the second with an empty PRIVATE_KEY after a first one
\* that did post.
C3_Witness ==
    /\ PayReturned
    /\ payStarted = 2
    /\ Len(postLog) = 1
    /\ payLast.key.isSet
    /\ payLast.key.chars = <<>>
    /\ payResult.message = WalletMessage

\* C4 as stated: success=true exactly when the final response has status
\* 200; any other final status gives success=false with `status` that code
\* and `error` the body's error field, 'Unknown error' when it has none.
C4_SuccessIffStatus200 ==
    PayReturned =>
        /\ payResult.success <=> (payLast.kind = "response" /\ payLast.resp.status_code = HTTP_OK)
        /\ payLast.kind = "response" /\ payLast.resp.status_code # HTTP_OK =>
               /\ "status" \in DOMAIN payResult
               /\ payResult.status = payLast.resp.status_code
               /\ payResult.error =
                      Get(IF LastBodyIsObject THEN LastBody.value.fields ELSE EmptyDict,
                          "error", "Unknown error")

\* C4 amended: success=true only with a final status 200, and always so when
\* a 200 response carries a JSON object.  A non-200 response gives
\* success=false with `status` that code and `error` the object's error field
\* ('Unknown error' when it has none) or 'Invalid response format' when the
\* body is not JSON.  A body that is JSON but no object gives success=false
\* with the 'Failed to complete payment' message and no `status`.
C4_SuccessOnlyIfStatus200 ==
    PayReturned =>
        /\ payResult.success => payLast.kind = "response" /\ payLast.resp.status_code = HTTP_OK
        /\ LastWasResponse /\ LastBodyIsObject /\ payLast.resp.status_code = HTTP_OK =>
               payResult.success
        /\ LastWasResponse /\ LastBodyIsObject /\ payLast.resp.status_code # HTTP_OK =>
               /\ ~payResult.success
               /\ payResult.status = payLast.resp.status_code
               /\ payResult.error = Get(LastBody.value.fields, "error", "Unknown error")
        /\ LastWasResponse /\ ~LastBody.json /\ payLast.resp.status_code # HTTP_OK =>
               /\ ~payResult.success
               /\ payResult.status = payLast.resp.status_code
               /\ payResult.error = "Invalid response format"
        /\ LastWasResponse /\ LastBody.json /\ ~LastBodyIsObject =>
               /\ ~payResult.success
               /\ "status" \notin DOMAIN payResult
               /\ payResult.message[1] = "Failed to complete payment: "

\* A 402 left unsettled whose JSON object has no error field.
C4_Witness ==
    /\ LastWasResponse
    /\ payLast.resp.status_code = 402
    /\ LastBodyIsObject
    /\ "error" \notin DOMAIN LastBody.value.fields
    /\ payResult.error = "Unknown error"

\* C5 as stated: an invocation issues at most one client.post, and exactly
\* one whenever PRIVATE_KEY yielded a valid wallet.
C5_OnePostWhenWalletValid ==
    /\ payPosts <= 1
    /\ PayReturned /\ payLast.walletOk => payPosts = 1

\* C5 amended: an invocation issues at most one client.post, and exactly one
\* when PRIVATE_KEY yields a valid wallet and the payment client opens; none
\* is re-issued after a response or an exception, and every invocation that
\* opens the client adds its own POST, carrying its own arguments.
C5_OnePostPerOpenedClient ==
    /\ payPosts <= 1
    /\ PayReturned => (payPosts = 1 <=> payLast.walletOk /\ payLast.clientOk)
    /\ payPc = "posting" => payPosts = 1
    /\ Len(postLog) = payEntered
    /\ payPosts = 1 => postLog[Len(postLog)] = RequestJson(payCall.args)

\* Two invocations with identical arguments ended, the first with a non-200
\* response, and two identical POSTs were issued.
C5_Witness ==
    /\ PayReturned
    /\ payStarted = 2
    /\ Len(postLog) = 2
    /\ postLog[1] = postLog[2]
    /\ ~payResult.success

----------------------------------------------------------------------------
(* The conversation: seapay_agent's tools and what gates them               *)

\* Lines 95-98: the MCP tools the hosted connection exposes.
McpAllowedTools == {"check_availability", "reserve"}

\* Line 101
McpRequireApproval == "never"

\* Line 565: tools=[mcp, show_hotel_cards, make_payment, show_approval_request]
FunctionTools == {"show_hotel_cards", "make_payment", "show_approval_request"}

\* The actions the instructions ask an approval for (lines 549-554).
GatedTools == McpAllowedTools \cup {"make_payment"}

UserTexts == {"approve", "reject", "other"}

UserMessage(text) == [type |-> "user", name |-> text, about |-> "none"]

ToolCall(tool) == [type |-> "tool", name |-> tool, about |-> "none"]

\* A show_approval_request call; `about` is the action its title and
\* description announce.
ApprovalRequest(action) ==
    [type |-> "tool", name |-> "show_approval_request", about |-> action]

\* What the code demands before the runtime executes a tool call: an MCP
\* call needs the framework's approval only when require_approval asks for
\* it, a function tool needs nothing.  `approved` is whether the
\* conversation holds an approval of that action.
ToolCallPermitted(tool, approved) ==
    \/ tool \in FunctionTools
    \/ tool \in McpAllowedTools /\ (McpRequireApproval = "never" \/ approved)

\* An approval of `action` stands at the end of `log`: a request for it was
\* shown, a user message approving it followed, and no rejection since.
Approved(log, action) ==
    \E j \in DOMAIN log :
        /\ log[j] = ApprovalRequest(action)
        /\ \E k \in (j+1)..Len(log) : log[k] = UserMessage("approve")
        /\ \A m \in (j+1)..Len(log) : log[m] # UserMessage("reject")

ConvInit ==
    /\ convLog = <<>>
    /\ convTurn = "user"

ConvQuiet == ConvInit

\* A user message arrives and starts a run (SeaPayServer.respond).
UserSends(text) ==
    /\ convTurn = "user"
    /\ Len(convLog) < MaxConvLen
    /\ convLog' = Append(convLog, UserMessage(text))
    /\ convTurn' = "agent"
    /\ UNCHANGED convFrame

\* The run calls show_approval_request for an action.
AgentShowsApproval(action) ==
    /\ convTurn = "agent"
    /\ Len(convLog) < MaxConvLen
    /\ ToolCallPermitted("show_approval_request", Approved(convLog, action))
    /\ convLog' = Append(convLog, ApprovalRequest(action))
    /\ UNCHANGED convTurn
    /\ UNCHANGED convFrame

\* The run calls an MCP tool, make_payment or show_hotel_cards.
AgentCallsTool(tool) ==
    /\ convTurn = "agent"
    /\ Len(convLog) < MaxConvLen
    /\ ToolCallPermitted(tool, Approved(convLog, tool))
    /\ convLog' = Append(convLog, ToolCall(tool))
    /\ UNCHANGED convTurn
    /\ UNCHANGED convFrame

\* The run ends; the next user message is awaited.
AgentEndsRun ==
    /\ convTurn = "agent"
    /\ convTurn' = "user"
    /\ UNCHANGED convLog
    /\ UNCHANGED convFrame

ConvNext ==
    \/ \E text \in UserTexts : UserSends(text)
    \/ \E action \in GatedTools : AgentShowsApproval(action)
    \/ \E tool \in McpAllowedTools \cup {"make_payment", "show_hotel_cards"} :
          AgentCallsTool(tool)
    \/ AgentEndsRun

\* C6: every call of check_availability, reserve or make_payment in the
\* conversation comes after a show_approval_request for that action and a
\* user message approving it, with no rejection in between.
C6_ToolCallsFollowApproval ==
    \A i \in DOMAIN convLog :
        convLog[i].type = "tool" /\ convLog[i].name \in GatedTools =>
            Approved(SubSeq(convLog, 1, i - 1), convLog[i].name)

----------------------------------------------------------------------------
(* SeaPayServer: src/backend/app/server.py                                  *)

Turns == {"t1", "t2"}

Threads == {"thr_a", "thr_b"}

RequestContexts == {"rc1", "rc2"}

ThreadLengths == {0, 2}

\* Line 46
LoadLimit == 20

Min(a, b) == IF a <= b THEN a ELSE b

\* The items a thread holds, oldest first.
ThreadItems(th, len) == [i \in 1..len |-> [thread |-> th, n |-> i]]

\* store.load_thread_items(thread_id, after=None, limit, order="desc"): the
\* page of the `limit` most recent items of that thread, newest first.
LoadThreadItems(st, thread_id, limit) ==
    LET all == st[thread_id]
        k == Min(limit, Len(all))
    IN  [i \in 1..k |-> all[Len(all) - i + 1]]

\* list(reversed(items_page.data))
\* respond handing the page on as loaded, newest first.
PageNotReversed(seq) == seq

Reversed(seq) == [i \in 1..Len(seq) |-> seq[Len(seq) - i + 1]]

\* thread_item_converter.to_agent_input(items): one input item per thread item.
ToAgentInput(items) == [i \in 1..Len(items) |-> [role |-> "user", from |-> items[i]]]

\* The `item` argument of respond: the new user message, or None.
NewUserMessage == "user_message_item"

InputItems == {None, NewUserMessage}

\* _select_agent handing every turn one context bound to the first thread.
SelectAgentSharedContext(thread, item, context) ==
    [agent |-> "seapay_agent",
     context |-> [thread |-> "thr_a", store |-> "self.store", request_context |-> context]]

\* _select_agent routing turns that have no user message to another agent.
SelectAgentByItem(thread, item, context) ==
    [agent |-> IF item = None THEN "default_agent" ELSE "seapay_agent",
     context |-> [thread |-> thread, store |-> "self.store", request_context |-> context]]

\* Lines 75-91: _select_agent.
SelectAgent(thread, item, context) ==
    [agent |-> "seapay_agent",
     context |-> [thread |-> thread, store |-> "self.store", request_context |-> context]]

NoRun ==
    [started |-> FALSE, agent |-> "none", input |-> <<>>,
     context |-> [thread |-> "none", store |-> "none", request_context |-> "none"]]

EventKinds == {"text", "widget"}

\* Line 58: `yield event`.
YieldEventSkipsWidgets(out, event) ==
    IF event.kind = "widget" THEN out ELSE Append(out, event)

YieldEvent(out, event) == Append(out, event)

\* SeaPayServer.action with the click recorded as a thread item and echoed.
ActionEffectRecordsClick(st, thread, action) ==
    [events |-> <<[run |-> "action", kind |-> action]>>,
     store |-> [st EXCEPT ![thread] = Append(@, [thread |-> thread, n |-> Len(@) + 1])],
     runs |-> 0]

\* Lines 61-69: the body of SeaPayServer.action is a bare `return`.
ActionEffect(st, thread, action) ==
    [events |-> <<>>, store |-> st, runs |-> 0]

WidgetActions == {"request.approve", "request.reject"}

SrvQuiet ==
    /\ store = [th \in Threads |-> <<>>]
    /\ turnPc = [t \in Turns |-> "idle"]
    /\ turnReq = [t \in Turns |-> [thread |-> "none", item |-> "none", context |-> "none"]]
    /\ turnItems = [t \in Turns |-> <<>>]
    /\ runOf = [t \in Turns |-> NoRun]
    /\ produced = [t \in Turns |-> <<>>]
    /\ pending = [t \in Turns |-> <<>>]
    /\ yielded = [t \in Turns |-> <<>>]
    /\ runsStarted = 0
    /\ actionsHandled = 0
    /\ actionEvents = <<>>

SrvInit ==
    /\ \E len \in [Threads -> ThreadLengths] :
          store = [th \in Threads |-> ThreadItems(th, len[th])]
    /\ turnPc = [t \in Turns |-> "idle"]
    /\ turnReq = [t \in Turns |-> [thread |-> "none", item |-> "none", context |-> "none"]]
    /\ turnItems = [t \in Turns |-> <<>>]
    /\ runOf = [t \in Turns |-> NoRun]
    /\ produced = [t \in Turns |-> <<>>]
    /\ pending = [t \in Turns |-> <<>>]
    /\ yielded = [t \in Turns |-> <<>>]
    /\ runsStarted = 0
    /\ actionsHandled = 0
    /\ actionEvents = <<>>

\* Lines 37-49: respond is called for a chat turn and awaits the history.
RespondCalled(t, thread, item, context) ==
    /\ turnPc[t] = "idle"
    /\ turnPc' = [turnPc EXCEPT ![t] = "loading"]
    /\ turnReq' = [turnReq EXCEPT ![t] = [thread |-> thread, item |-> item, context |-> context]]
    /\ UNCHANGED <<store, turnItems, runOf, produced, pending, yielded,
                   runsStarted, actionsHandled, actionEvents>>
    /\ UNCHANGED srvFrame

\* Lines 43-51: the page arrives, is reversed, and the conversion is awaited.
RespondLoaded(t) ==
    /\ turnPc[t] = "loading"
    /\ turnItems' = [turnItems EXCEPT
                       ![t] = Reversed(LoadThreadItems(store, turnReq[t].thread, LoadLimit))]
    /\ turnPc' = [turnPc EXCEPT ![t] = "converting"]
    /\ UNCHANGED <<store, turnReq, runOf, produced, pending, yielded,
                   runsStarted, actionsHandled, actionEvents>>
    /\ UNCHANGED srvFrame

\* Lines 51-57: the input is ready, the agent is selected, the run started.
RespondRuns(t) ==
    /\ turnPc[t] = "converting"
    /\ LET sel == SelectAgent(turnReq[t].thread, turnReq[t].item, turnReq[t].context)
       IN  runOf' = [runOf EXCEPT
                       ![t] = [started |-> TRUE, agent |-> sel.agent,
                               input |-> ToAgentInput(turnItems[t]),
                               context |-> sel.context]]
    /\ runsStarted' = runsStarted + 1
    /\ turnPc' = [turnPc EXCEPT ![t] = "streaming"]
    /\ UNCHANGED <<store, turnReq, turnItems, produced, pending, yielded,
                   actionsHandled, actionEvents>>
    /\ UNCHANGED srvFrame

\* Line 57: stream_agent_response hands respond the run's next event.
StreamProduces(t, kind) ==
    /\ turnPc[t] = "streaming"
    /\ pending[t] = <<>>
    /\ Len(produced[t]) < MaxEvents
    /\ LET event == [run |-> t, kind |-> kind]
       IN  /\ produced' = [produced EXCEPT ![t] = Append(@, event)]
           /\ pending' = [pending EXCEPT ![t] = <<event>>]
    /\ UNCHANGED <<store, turnPc, turnReq, turnItems, runOf, yielded,
                   runsStarted, actionsHandled, actionEvents>>
    /\ UNCHANGED srvFrame

\* Line 58: respond yields the event it received.
RespondYields(t) ==
    /\ turnPc[t] = "streaming"
    /\ pending[t] # <<>>
    /\ yielded' = [yielded EXCEPT ![t] = YieldEvent(@, pending[t][1])]
    /\ pending' = [pending EXCEPT ![t] = <<>>]
    /\ UNCHANGED <<store, turnPc, turnReq, turnItems, runOf, produced,
                   runsStarted, actionsHandled, actionEvents>>
    /\ UNCHANGED srvFrame

\* Lines 57-59: the stream is exhausted and respond returns.
RespondReturns(t) ==
    /\ turnPc[t] = "streaming"
    /\ pending[t] = <<>>
    /\ turnPc' = [turnPc EXCEPT ![t] = "done"]
    /\ UNCHANGED <<store, turnReq, turnItems, runOf, produced, pending, yielded,
                   runsStarted, actionsHandled, actionEvents>>
    /\ UNCHANGED srvFrame

\* Line 57: stream_agent_response raises; respond has no handler, so the
\* exception leaves it.
StreamRaises(t) ==
    /\ turnPc[t] = "streaming"
    /\ pending[t] = <<>>
    /\ turnPc' = [turnPc EXCEPT ![t] = "failed"]
    /\ UNCHANGED <<store, turnReq, turnItems, runOf, produced, pending, yielded,
                   runsStarted, actionsHandled, actionEvents>>
    /\ UNCHANGED srvFrame

\* Lines 61-69: a widget action (a button click) is delivered.
ServerAction(thread, action) ==
    /\ actionsHandled < MaxActions
    /\ actionsHandled' = actionsHandled + 1
    /\ LET effect == ActionEffect(store, thread, action)
       IN  /\ store' = effect.store
           /\ actionEvents' = actionEvents \o effect.events
           /\ runsStarted' = runsStarted + effect.runs
    /\ UNCHANGED <<turnPc, turnReq, turnItems, runOf, produced, pending, yielded>>
    /\ UNCHANGED srvFrame

SrvNext ==
    \/ \E t \in Turns, thread \in Threads, context \in RequestContexts :
          RespondCalled(t, thread, NewUserMessage, context)
    \/ \E t \in Turns : RespondLoaded(t)
    \/ \E t \in Turns : RespondRuns(t)
    \/ \E t \in Turns, kind \in EventKinds : StreamProduces(t, kind)
    \/ \E t \in Turns : RespondYields(t)
    \/ \E t \in Turns : RespondReturns(t)
    \/ \E t \in Turns : StreamRaises(t)
    \/ \E thread \in Threads, action \in WidgetActions : ServerAction(thread, action)

IsPrefix(a, b) == Len(a) <= Len(b) /\ a = SubSeq(b, 1, Len(a))

\* C7: what respond has yielded for a turn is at every moment the events
\* stream_agent_response produced for that turn's run, in their order, less
\* at most the one event respond holds; once respond has returned, or the
\* stream has raised, it is all of them; nothing is yielded before the
\* history is loaded and the run is started.
C7_YieldsExactlyTheRunsEvents ==
    \A t \in Turns :
        /\ IsPrefix(yielded[t], produced[t])
        /\ Len(produced[t]) - Len(yielded[t]) = Len(pending[t])
        /\ turnPc[t] \in {"done", "failed"} => yielded[t] = produced[t]
        /\ turnPc[t] \in {"idle", "loading", "converting"} => yielded[t] = <<>>
        /\ yielded[t] # <<>> => runOf[t].started

\* A turn has ended after its run produced a text and then a widget event.
C7_Witness ==
    \E t \in Turns :
        /\ turnPc[t] = "done"
        /\ Len(produced[t]) = 2
        /\ produced[t][1].kind = "text"
        /\ produced[t][2].kind = "widget"
        /\ yielded[t] = produced[t]

\* C8: a step in which SeaPayServer.action handles a widget action yields
\* no event, starts no run and changes neither the store nor any turn's or
\* conversation's state; the action handler never has yielded an event.
C8_ActionChangesNothing ==
    /\ [](actionEvents = <<>>)
    /\ [][actionsHandled' # actionsHandled =>
             UNCHANGED <<store, turnPc, turnReq, turnItems, runOf, produced,
                         pending, yielded, runsStarted, actionEvents,
                         convVars, payVars>>]_vars

\* An approve click was handled while a turn was streaming.
C8_Witness ==
    /\ actionsHandled > 0
    /\ \E t \in Turns : turnPc[t] = "streaming" /\ yielded[t] # <<>>

----------------------------------------------------------------------------
(* show_hotel_cards, show_approval_request and build_approval_widget        *)

\* Lines 43-53: HotelData, six fields and no other (extra="forbid").
HotelFields == {"hotelName", "location", "dates", "roomType", "price", "imageUrl"}

HotelData ==
    { [hotelName |-> "Grand", location |-> "Paris", dates |-> "2025-01-01 to 2025-01-03",
       roomType |-> "Deluxe", price |-> "120.0", imageUrl |-> "https://img/grand.png"],
      [hotelName |-> "Plaza", location |-> "Paris", dates |-> "2025-01-01 to 2025-01-03",
       roomType |-> "Twin", price |-> "95 USDC", imageUrl |-> None] }

SeqsUpTo(S, n) == UNION { [1..k -> S] : k \in 0..n }

\* hotel.model_dump() leaving out the fields whose value is None.
ModelDumpExcludeNone(hotel) ==
    [f \in { g \in HotelFields : hotel[g] # None } |-> hotel[f]]

\* Line 251: hotel.model_dump(), a dict of the model's six fields.
ModelDump(hotel) ==
    [hotelName |-> hotel.hotelName, location |-> hotel.location,
     dates |-> hotel.dates, roomType |-> hotel.roomType,
     price |-> hotel.price, imageUrl |-> hotel.imageUrl]

\* Lines 251-254: the arguments of build_hotel_card_widget.
HotelBuilderArgs(hotels) ==
    [called |-> TRUE, input |-> hotels,
     hotels |-> [i \in 1..Len(hotels) |-> ModelDump(hotels[i])],
     selected |-> None]

NoHotelBuild == [called |-> FALSE, input |-> <<>>, hotels |-> <<>>, selected |-> None]

\* Lines 257-260: the copy text names the first three hotels.
HotelCopyText(hotels) ==
    [found |-> Len(hotels),
     names |-> [i \in 1..Min(3, Len(hotels)) |-> hotels[i].hotelName],
     more |-> IF Len(hotels) > 3 THEN Len(hotels) - 3 ELSE 0]

\* Line 303: copy_text=f"{title}: {description}"
ApprovalCopyText(title, description) == <<title, ": ", description>>

ApprovalTitles == {"Proceed with hotel search?", "Proceed with payment?"}

ApprovalDescriptions == {"I'm about to search for available hotels", ""}

\* Line 11 of the widget module: the template every approval widget is built from.
ApprovalTemplate == "Quick Approve_Reject.widget"

\* build_approval_widget with the two values under each other's key.
BuildApprovalWidgetSwapped(title, description) ==
    [template |-> ApprovalTemplate,
     payload |-> [title |-> description, description |-> title]]

\* quick_approve_reject_widget.py lines 14-33: the payload and the template
\* it is handed to.
BuildApprovalWidget(title, description) ==
    [template |-> ApprovalTemplate,
     payload |-> [title |-> title, description |-> description]]

ErrorText(raised) == IF raised = "build" THEN "build failed" ELSE "stream failed"

\* HotelCardsResult reporting the list length also when displaying failed.
HotelCardsResultCountsOnError(hotels, raised) ==
    IF hotels = <<>>
    THEN [message |-> [text |-> "No hotels to display", arg |-> ""], count |-> 0]
    ELSE IF raised # "no"
         THEN [message |-> [text |-> "Error displaying hotels: ", arg |-> ErrorText(raised)],
               count |-> Len(hotels)]
         ELSE [message |-> [text |-> "Displayed {n} hotel(s) in a list",
                            arg |-> ToString(Len(hotels))],
               count |-> Len(hotels)]

\* Lines 246-247, 262-265 and 266-271: what show_hotel_cards returns.
HotelCardsResult(hotels, raised) ==
    IF hotels = <<>>
    THEN [message |-> [text |-> "No hotels to display", arg |-> ""], count |-> 0]
    ELSE IF raised # "no"
         THEN [message |-> [text |-> "Error displaying hotels: ", arg |-> ErrorText(raised)],
               count |-> 0]
         ELSE [message |-> [text |-> "Displayed {n} hotel(s) in a list",
                            arg |-> ToString(Len(hotels))],
               count |-> Len(hotels)]

\* ApprovalResult echoing title and description also when displaying failed.
ApprovalResultEchoesOnError(title, description, raised) ==
    IF raised # "no"
    THEN [message |-> [text |-> "Error displaying approval request: ",
                       arg |-> ErrorText(raised)],
          title |-> title, description |-> description]
    ELSE [message |-> [text |-> "Approval request displayed", arg |-> ""],
          title |-> title, description |-> description]

\* Lines 305-309 and 310-314: what show_approval_request returns.
ApprovalResult(title, description, raised) ==
    IF raised # "no"
    THEN [message |-> [text |-> "Error displaying approval request: ",
                       arg |-> ErrorText(raised)]]
    ELSE [message |-> [text |-> "Approval request displayed", arg |-> ""],
          title |-> title, description |-> description]

NoWidCall == [tool |-> "none", hotels |-> <<>>, title |-> "", description |-> ""]

WidInit ==
    /\ widPc = "idle"
    /\ widCall = NoWidCall
    /\ widCalls = 0
    /\ hotelBuild = NoHotelBuild
    /\ approvalBuilds = <<>>
    /\ streamCalls = <<>>
    /\ widResult = [message |-> [text |-> "none", arg |-> ""]]
    /\ widRaised = "no"

WidQuiet == WidInit

\* Lines 244-260 and 266-271: show_hotel_cards up to the await of
\* stream_widget; it ends at once on an empty list or when the builder raises.
ShowHotelCardsCall(hotels, buildRaises) ==
    /\ widPc = "idle"
    /\ widCalls < MaxToolCalls
    /\ widCalls' = widCalls + 1
    /\ widCall' = [tool |-> "show_hotel_cards", hotels |-> hotels,
                   title |-> "", description |-> ""]
    /\ IF hotels = <<>>
       THEN /\ widResult' = HotelCardsResult(hotels, "no")
            /\ widRaised' = "no"
            /\ hotelBuild' = NoHotelBuild
            /\ streamCalls' = <<>>
            /\ widPc' = "idle"
       ELSE /\ hotelBuild' = HotelBuilderArgs(hotels)
            /\ IF buildRaises
               THEN /\ widResult' = HotelCardsResult(hotels, "build")
                    /\ widRaised' = "build"
                    /\ streamCalls' = <<>>
                    /\ widPc' = "idle"
               ELSE /\ streamCalls' = <<[widget |-> "hotel_card_widget",
                                          copy_text |-> HotelCopyText(hotels)]>>
                    /\ widPc' = "streaming"
                    /\ widRaised' = "no"
                    /\ UNCHANGED widResult
    /\ UNCHANGED approvalBuilds
    /\ UNCHANGED widFrame

\* Lines 296-303 and 310-314: show_approval_request up to the await of
\* stream_widget; it ends at once when the builder raises.
ShowApprovalRequestCall(title, description, buildRaises) ==
    /\ widPc = "idle"
    /\ widCalls < MaxToolCalls
    /\ widCalls' = widCalls + 1
    /\ widCall' = [tool |-> "show_approval_request", hotels |-> <<>>,
                   title |-> title, description |-> description]
    /\ approvalBuilds' =
           Append(approvalBuilds,
                  [title |-> title, description |-> description,
                   built |-> BuildApprovalWidget(title, description)])
    /\ IF buildRaises
       THEN /\ widResult' = ApprovalResult(title, description, "build")
            /\ widRaised' = "build"
            /\ streamCalls' = <<>>
            /\ widPc' = "idle"
       ELSE /\ streamCalls' = <<[widget |-> "approval_widget",
                                  copy_text |-> ApprovalCopyText(title, description)]>>
            /\ widPc' = "streaming"
            /\ widRaised' = "no"
            /\ UNCHANGED widResult
    /\ UNCHANGED hotelBuild
    /\ UNCHANGED widFrame

\* Lines 260-271 and 303-314: stream_widget returned or raised.
StreamWidgetEnds(raises) ==
    /\ widPc = "streaming"
    /\ widPc' = "idle"
    /\ widRaised' = IF raises THEN "stream" ELSE "no"
    /\ widResult' =
           IF widCall.tool = "show_hotel_cards"
           THEN HotelCardsResult(widCall.hotels, widRaised')
           ELSE ApprovalResult(widCall.title, widCall.description, widRaised')
    /\ UNCHANGED <<widCall, widCalls, hotelBuild, approvalBuilds, streamCalls>>
    /\ UNCHANGED widFrame

WidNext ==
    \/ \E hotels \in SeqsUpTo(HotelData, MaxHotels), buildRaises \in BOOLEAN :
          ShowHotelCardsCall(hotels, buildRaises)
    \/ \E title \in ApprovalTitles, description \in ApprovalDescriptions,
          buildRaises \in BOOLEAN :
          ShowApprovalRequestCall(title, description, buildRaises)
    \/ \E raises \in BOOLEAN : StreamWidgetEnds(raises)

\* C9: for a non-empty list show_hotel_cards gives the widget builder a
\* list of the same length and order whose every entry has exactly the six
\* fields of the input hotel with the input's values, and selected=None.
C9_HotelsPassedUnchanged ==
    /\ widCall.tool = "show_hotel_cards" /\ widCall.hotels # <<>> =>
           hotelBuild.called /\ hotelBuild.input = widCall.hotels
    /\ hotelBuild.called =>
           /\ Len(hotelBuild.hotels) = Len(hotelBuild.input)
           /\ \A i \in 1..Len(hotelBuild.input) :
                  /\ DOMAIN hotelBuild.hotels[i] = HotelFields
                  /\ \A f \in HotelFields :
                         hotelBuild.hotels[i][f] = hotelBuild.input[i][f]
           /\ hotelBuild.selected = None

\* Four hotels, the same one twice and one without an image, were shown.
C9_Witness ==
    /\ widPc = "idle"
    /\ widCall.tool = "show_hotel_cards"
    /\ Len(widCall.hotels) = 4
    /\ widCall.hotels[1] = widCall.hotels[3]
    /\ widCall.hotels[2].imageUrl = None
    /\ widCall.hotels[1].imageUrl # None
    /\ hotelBuild.called
    /\ widResult.count = 4

\* C10: every build_approval_widget call builds from the fixed approval
\* template with a payload of exactly the keys title and description,
\* holding the arguments; calls with equal arguments build from equal
\* payloads.
C10_ApprovalPayloadIsArguments ==
    /\ \A i \in DOMAIN approvalBuilds :
           LET b == approvalBuilds[i]
           IN  /\ b.built.template = ApprovalTemplate
               /\ DOMAIN b.built.payload = {"title", "description"}
               /\ b.built.payload.title = b.title
               /\ b.built.payload.description = b.description
    /\ \A i, j \in DOMAIN approvalBuilds :
           approvalBuilds[i].title = approvalBuilds[j].title
           /\ approvalBuilds[i].description = approvalBuilds[j].description
           => approvalBuilds[i].built = approvalBuilds[j].built

\* Two builds with the same title and description, after a build with others.
C10_Witness ==
    /\ Len(approvalBuilds) = 2
    /\ approvalBuilds[1].title = approvalBuilds[2].title
    /\ approvalBuilds[1].description = approvalBuilds[2].description
    /\ approvalBuilds[1].title # approvalBuilds[1].description

----------------------------------------------------------------------------
(* Chat turns: isolation, agent selection and the history window            *)

\* C12: turns share only the store: the context of every started run is
\* bound to the thread and the request context of its own respond call, and
\* every event a respond call has yielded is an event of its own run, for
\* every interleaving of two turns on the same or on different threads.
C12_TurnsAreIsolated ==
    \A t \in Turns :
        /\ runOf[t].started =>
               /\ runOf[t].context.thread = turnReq[t].thread
               /\ runOf[t].context.request_context = turnReq[t].context
        /\ \A i \in DOMAIN yielded[t] : yielded[t][i].run = t
        /\ \A u \in Turns \ {t} :
               \A i \in DOMAIN yielded[t] : \A j \in DOMAIN produced[u] :
                   yielded[t][i] # produced[u][j]

\* Two turns with different threads and request contexts are both in the
\* middle of streaming, and each has yielded an event.
C12_Witness ==
    /\ turnPc["t1"] = "streaming" /\ turnPc["t2"] = "streaming"
    /\ turnReq["t1"].thread # turnReq["t2"].thread
    /\ turnReq["t1"].context # turnReq["t2"].context
    /\ yielded["t1"] # <<>> /\ yielded["t2"] # <<>>

\* The history specification: respond up to the start of the run, over
\* threads shorter than, as long as and longer than the page limit, and with
\* and without a new user message.
HistLengths == {0, 2, LoadLimit, LoadLimit + 2}

HistInit ==
    /\ \E len \in [Threads -> HistLengths] :
          store = [th \in Threads |-> ThreadItems(th, len[th])]
    /\ turnPc = [t \in Turns |-> "idle"]
    /\ turnReq = [t \in Turns |-> [thread |-> "none", item |-> "none", context |-> "none"]]
    /\ turnItems = [t \in Turns |-> <<>>]
    /\ runOf = [t \in Turns |-> NoRun]
    /\ produced = [t \in Turns |-> <<>>]
    /\ pending = [t \in Turns |-> <<>>]
    /\ yielded = [t \in Turns |-> <<>>]
    /\ runsStarted = 0
    /\ actionsHandled = 0
    /\ actionEvents = <<>>

HistNext ==
    \/ \E t \in Turns, thread \in Threads, item \in InputItems,
          context \in RequestContexts :
          RespondCalled(t, thread, item, context)
    \/ \E t \in Turns : RespondLoaded(t)
    \/ \E t \in Turns : RespondRuns(t)

\* C13: whatever the thread, the user message (also a missing one) and the
\* request context, the run is started with the seapay_agent and a context
\* carrying that thread, that request context and the server's store.
C13_AgentSelectionIsConstant ==
    \A t \in Turns :
        runOf[t].started =>
            /\ runOf[t].agent = "seapay_agent"
            /\ runOf[t].context =
                   [thread |-> turnReq[t].thread, store |-> "self.store",
                    request_context |-> turnReq[t].context]

\* Two runs were started, one for a turn without a user message and one for
\* a turn with one, on different threads and with different request contexts.
C13_Witness ==
    /\ runOf["t1"].started /\ runOf["t2"].started
    /\ turnReq["t1"].item = None
    /\ turnReq["t2"].item = NewUserMessage
    /\ turnReq["t1"].thread # turnReq["t2"].thread
    /\ turnReq["t1"].context # turnReq["t2"].context

----------------------------------------------------------------------------
(* The widget tools: results against what was displayed                     *)

HotelCardsActive == widCall.tool = "show_hotel_cards"

HotelCardsReturned == HotelCardsActive /\ widPc = "idle"

ApprovalActive == widCall.tool = "show_approval_request"

ApprovalReturned == ApprovalActive /\ widPc = "idle"

\* C15: an invocation of show_hotel_cards makes at most one stream_widget
\* call and none for an empty list; once it has returned, an empty list gave
\* count 0, and a non-empty list gave count = list length exactly when the
\* one widget was built and streamed without raising, and count 0 with the
\* 'Error displaying hotels' message when building or streaming raised.
C15_CountMatchesDisplay ==
    /\ HotelCardsActive =>
           /\ Len(streamCalls) <= 1
           /\ widCall.hotels = <<>> => streamCalls = <<>>
    /\ HotelCardsReturned =>
           /\ "count" \in DOMAIN widResult
           /\ widCall.hotels = <<>> => widResult.count = 0
           /\ widCall.hotels # <<>> =>
                  /\ widResult.count = Len(widCall.hotels)
                         <=> (widRaised = "no" /\ Len(streamCalls) = 1)
                  /\ widRaised # "no" =>
                         /\ widResult.count = 0
                         /\ widResult.message.text = "Error displaying hotels: "

\* show_hotel_cards returned for two hotels after stream_widget raised.
C15_Witness ==
    /\ HotelCardsReturned
    /\ Len(widCall.hotels) = 2
    /\ widRaised = "stream"
    /\ Len(streamCalls) = 1
    /\ widResult.count = 0

\* C16: an invocation of show_approval_request makes at most one
\* stream_widget call; once it has returned, the 'Approval request displayed'
\* result, echoing the given title and description, is given only after the
\* widget was built and streamed without raising, and when building or
\* streaming raised the result holds only the error message.
C16_ApprovalResultMatchesDisplay ==
    /\ ApprovalActive => Len(streamCalls) <= 1
    /\ ApprovalReturned =>
           /\ widResult.message.text = "Approval request displayed" =>
                  /\ widRaised = "no"
                  /\ Len(streamCalls) = 1
                  /\ DOMAIN widResult = {"message", "title", "description"}
                  /\ widResult.title = widCall.title
                  /\ widResult.description = widCall.description
           /\ widRaised # "no" =>
                  /\ DOMAIN widResult = {"message"}
                  /\ widResult.message.text = "Error displaying approval request: "
           /\ widRaised = "no" => widResult.message.text = "Approval request displayed"

\* show_approval_request returned after stream_widget raised, following an
\* invocation that displayed its request.
C16_Witness ==
    /\ ApprovalReturned
    /\ widCalls = 2
    /\ widRaised = "stream"
    /\ Len(streamCalls) = 1
    /\ Len(approvalBuilds) = 2

----------------------------------------------------------------------------
(* make_payment: which failures get the wallet-configuration message       *)

\* C17: an invocation of make_payment that returned the wallet-configuration
\* message ('Payment processing is not configured. ...') had a missing
\* PRIVATE_KEY or one that could not be turned into a wallet, and issued no
\* POST; every failure after the POST was issued carries another message.
C17_WalletMessageOnlyForWalletErrors ==
    (PayReturned /\ payResult.message = WalletMessage) =>
        /\ ~payLast.walletOk
        /\ payPosts = 0

----------------------------------------------------------------------------
(* The POST /chatkit endpoint: src/chatkit/server.py                        *)

RequestBodies == {"threads.create", "threads.list", "not a request"}

\* What server.process returns: a StreamingResult (an event stream) or a
\* non-streaming result with a `json` attribute.
ProcessResults ==
    { [type |-> "StreamingResult", stream |-> st, json |-> ""] :
        st \in { <<>>, <<"event1">>, <<"event1", "event2">> } }
    \cup { [type |-> "NonStreamingResult", stream |-> <<>>, json |-> j] :
             j \in { "{}", "{threads: []}" } }

NoProcessResult == [type |-> "none", stream |-> <<>>, json |-> ""]

\* The handler answering every result with the JSON response.
EndpointResponseAlwaysJson(result) ==
    <<[class |-> "Response", media_type |-> "application/json",
       body_iterator |-> <<>>, content |-> result.json]>>

\* Lines 85-88: the responses the handler returns for a result.
EndpointResponse(result) ==
    IF IsInstance(result.type, "StreamingResult")
    THEN <<[class |-> "StreamingResponse", media_type |-> "text/event-stream",
            body_iterator |-> result.stream, content |-> ""]>>
    ELSE <<[class |-> "Response", media_type |-> "application/json",
            body_iterator |-> <<>>, content |-> result.json]>>

EpInit ==
    /\ epPc = "idle"
    /\ epBody = ""
    /\ epLog = <<>>

EpQuiet == EpInit

\* Lines 83-85: a request arrives; its body is read and server.process awaited.
EndpointCalled(body) ==
    /\ epPc = "idle"
    /\ Len(epLog) < MaxRequests
    /\ epPc' = "processing"
    /\ epBody' = body
    /\ UNCHANGED epLog
    /\ UNCHANGED epFrame

\* Lines 85-88: server.process returned a result.
ProcessReturns(result) ==
    /\ epPc = "processing"
    /\ epPc' = "idle"
    /\ epLog' = Append(epLog, [body |-> epBody, outcome |-> "result", result |-> result,
                               responses |-> EndpointResponse(result)])
    /\ UNCHANGED epBody
    /\ UNCHANGED epFrame

\* Line 85: server.process raised; the handler has no try, so it returns
\* nothing and the exception goes to the framework.
ProcessRaises ==
    /\ epPc = "processing"
    /\ epPc' = "idle"
    /\ epLog' = Append(epLog, [body |-> epBody, outcome |-> "raise",
                               result |-> NoProcessResult, responses |-> <<>>])
    /\ UNCHANGED epBody
    /\ UNCHANGED epFrame

EpNext ==
    \/ \E body \in RequestBodies : EndpointCalled(body)
    \/ \E result \in ProcessResults : ProcessReturns(result)
    \/ ProcessRaises

IsStreamingAnswer(r) ==
    r.class = "StreamingResponse" /\ r.media_type = "text/event-stream"

IsJsonAnswer(r) ==
    r.class = "Response" /\ r.media_type = "application/json"

\* C11 as stated: every handled request got exactly one response from the
\* handler, a text/event-stream streaming response or an application/json
\* response.
C11_EveryRequestAnswered ==
    \A i \in DOMAIN epLog :
        /\ Len(epLog[i].responses) = 1
        /\ IsStreamingAnswer(epLog[i].responses[1]) \/ IsJsonAnswer(epLog[i].responses[1])

\* C11 amended: every request for which server.process returned a result got
\* exactly one response: the text/event-stream streaming response over the
\* result when it is a StreamingResult, otherwise the application/json
\* response carrying the result's json; when server.process raised, the
\* handler returned no response.
C11_AnsweredByResultType ==
    \A i \in DOMAIN epLog :
        LET e == epLog[i]
        IN  /\ e.outcome = "result" =>
                   /\ Len(e.responses) = 1
                   /\ e.result.type = "StreamingResult" =>
                          /\ IsStreamingAnswer(e.responses[1])
                          /\ e.responses[1].body_iterator = e.result.stream
                   /\ e.result.type # "StreamingResult" =>
                          /\ IsJsonAnswer(e.responses[1])
                          /\ e.responses[1].content = e.result.json
            /\ e.outcome = "raise" => e.responses = <<>>

\* A streaming request and then a non-streaming one were answered.
C11_Witness ==
    /\ Len(epLog) = 2
    /\ epLog[1].result.type = "StreamingResult"
    /\ epLog[1].result.stream # <<>>
    /\ epLog[2].result.type = "NonStreamingResult"
    /\ IsJsonAnswer(epLog[2].responses[1])

----------------------------------------------------------------------------
(* Specifications *)

PayStart == PayInit /\ ConvQuiet /\ SrvQuiet /\ WidQuiet /\ EpQuiet

SpecPay == PayStart /\ [][PayNext]_vars

ConvStart == ConvInit /\ PayQuiet /\ SrvQuiet /\ WidQuiet /\ EpQuiet

SpecConv == ConvStart /\ [][ConvNext]_vars

SrvStart == SrvInit /\ PayQuiet /\ ConvQuiet /\ WidQuiet /\ EpQuiet

SpecSrv == SrvStart /\ [][SrvNext]_vars

WidStart == WidInit /\ PayQuiet /\ ConvQuiet /\ SrvQuiet /\ EpQuiet

SpecWid == WidStart /\ [][WidNext]_vars

HistStart == HistInit /\ PayQuiet /\ ConvQuiet /\ WidQuiet /\ EpQuiet

SpecHist == HistStart /\ [][HistNext]_vars

EpStart == EpInit /\ PayQuiet /\ ConvQuiet /\ SrvQuiet /\ WidQuiet

SpecEndpoint == EpStart /\ [][EpNext]_vars

=============================================================================
